---- MODULE Spec2Model ----
(***************************************************************************)
(* Model of the file-upload helpers of notion-client                      *)
(* (src/endpoints/file_uploads): the buffered uploads                     *)
(* (upload_file_with_request) and the streaming uploads                   *)
(* (upload_file_with_stream), together with the three remote calls they   *)
(* sequence: create_file_upload, send_file_upload, complete_file_upload.  *)
(*                                                                         *)
(* Byte strings are modelled symbolically: the i-th byte of a source is a  *)
(* symbol of its own, so a byte string is a sequence of intervals          *)
(* [off, len] of source positions, kept in normal form (no empty interval, *)
(* no two adjacent intervals that continue each other).  Two byte strings  *)
(* are equal for every content of the source iff their normal forms are.  *)
(***************************************************************************)
EXTENDS Integers, Sequences, FiniteSets, TLC

VARIABLES uploads, calls, sessions

vars == <<uploads, calls, sessions>>

\* ------------------------------------------------------------------ bounds
\* Largest buffered payload, counted in CHUNK_SIZE chunks.
MaxChunks == 4
\* Largest number of non-empty reads a streaming source may need.
MaxReads == 6

\* --------------------------------------------------------------- constants
MULTIPART_THRESHOLD == 20 * 1024 * 1024

CHUNK_SIZE == 5 * 1024 * 1024

DEFAULT_CHUNK_SIZE == 5 * 1024 * 1024

\* The upload calls that run in the model.
Uploads == {1, 2}

\* ------------------------------------------------------------ Option<u64>
None == [some |-> FALSE, v |-> 0]

Some(x) == [some |-> TRUE, v |-> x]

\* -------------------------------------------------------------------- u32
\* 2^32 is beyond the integers TLC computes with, so a u32 is kept as its
\* 32-bit pattern read as a two's-complement integer: the patterns of
\* 0 .. 2^31 - 1 are those numbers themselves, the patterns of
\* 2^31 .. 2^32 - 1 are -2^31 .. -1.  Part numbers 1, 2, 3, ... are the
\* integers 1, 2, 3, ...
PATTERN_MAX == 2147483647

\* u32::MAX = 2^32 - 1: all 32 bits set.
U32_MAX == -1

\* Numbers that may exceed 2^32 are kept as hi * 2^16 + lo, 0 <= lo < 2^16.
HALF == 65536

Big(hi, lo) == [hi |-> hi, lo |-> lo]

Zero == Big(0, 0)

\* n + j for a small j >= 0
BigAdd(n, j) == Big(n.hi + (n.lo + j) \div HALF, (n.lo + j) % HALF)

\* The number a u32 pattern stands for.
ValueOf(x) ==
    IF x >= 0 THEN Big(x \div HALF, x % HALF)
    ELSE LET q == x + PATTERN_MAX + 1
         IN Big(HALF \div 2 + q \div HALF, q % HALF)

\* n as u32: the pattern of the low 32 bits of n.
AsU32(n) ==
    LET h == n.hi % HALF
    IN IF h < HALF \div 2 THEN h * HALF + n.lo ELSE (h - HALF) * HALF + n.lo

\* ------------------------------------------------------------ byte strings
Empty == << >>

\* The bytes [off, off + len) of a source.
Slice(off, len) == IF len = 0 THEN Empty ELSE << [off |-> off, len |-> len] >>

\* Vec::len
RECURSIVE BytesLen(_)
BytesLen(b) == IF b = Empty THEN 0 ELSE Head(b).len + BytesLen(Tail(b))

\* Concatenation of two byte strings (normal form is kept).
Cat(a, b) ==
    IF a = Empty THEN b
    ELSE IF b = Empty THEN a
    ELSE LET l == a[Len(a)]
             f == Head(b)
         IN IF l.off + l.len = f.off
            THEN SubSeq(a, 1, Len(a) - 1)
                 \o << [off |-> l.off, len |-> l.len + f.len] >>
                 \o Tail(b)
            ELSE a \o b

\* Concatenation of a sequence of byte strings, in order.
RECURSIVE Concat(_)
Concat(bs) == IF bs = << >> THEN Empty ELSE Cat(Head(bs), Concat(Tail(bs)))

\* &data[from .. from + n] of a byte string that is one interval (or empty).
SubBytes(data, from, n) ==
    IF data = Empty THEN Empty ELSE Slice(data[1].off + from, n)

Min(a, b) == IF a < b THEN a ELSE b

\* slice::chunks(c): consecutive pieces of c bytes, the last possibly
\* shorter, no piece for an empty slice.
RECURSIVE ChunksFrom(_, _, _)
ChunksFrom(data, from, c) ==
    IF from >= BytesLen(data) THEN << >>
    ELSE << SubBytes(data, from, Min(c, BytesLen(data) - from)) >>
         \o ChunksFrom(data, from + c, c)

\* slice::chunks_exact(c): the remainder shorter than c is dropped.
Chunks_Exact(data, c) ==
    LET all == ChunksFrom(data, 0, c)
    IN SelectSeq(all, LAMBDA b : BytesLen(b) = c)

\* A split into pieces of twice the size asked for.
Chunks_Double(data, c) == ChunksFrom(data, 0, 2 * c)

\* A split that yields one empty piece for an empty slice.
Chunks_EmptyPiece(data, c) ==
    IF BytesLen(data) = 0 THEN << Empty >> ELSE ChunksFrom(data, 0, c)

\* slice::chunks(c)
Chunks(data, c) == ChunksFrom(data, 0, c)

\* ------------------------------------------------------------ input sets
\* Lengths of buffered payloads: around every multiple of CHUNK_SIZE up to
\* MaxChunks chunks (the last one is MULTIPART_THRESHOLD when MaxChunks = 4),
\* plus the 12 MiB payload.
BufferLens ==
    { n \in { k * CHUNK_SIZE + d : k \in 0..MaxChunks, d \in {-1, 0, 1} } :
        n >= 0 /\ n <= MaxChunks * CHUNK_SIZE }
    \cup { 12 * 1024 * 1024, MULTIPART_THRESHOLD - 1, MULTIPART_THRESHOLD }

\* A path is given by what from_file_path reads off it: its file name, if it
\* has one that is valid UTF-8, and the MIME type guessed from its extension,
\* if any.
NoneStr == [some |-> FALSE, v |-> ""]

Paths ==
    { [file_name |-> Some("report.pdf"), mime |-> Some("application/pdf")],
      [file_name |-> NoneStr, mime |-> NoneStr] }

FileNames == { "video.mp4" }

\* A MIME string reqwest can parse, and one it cannot.
ContentTypes == { "video/mp4", "not a mime type" }

ValidMime(content_type) == content_type # "not a mime type"

\* Lengths of streaming sources.
StreamLens == { 0, 1, 2, 3, 4, CHUNK_SIZE, 12 * 1024 * 1024 }

\* What a reader returns at most from one read: 0 stands for a reader that
\* always fills the buffer it is given, as far as the source goes.
ShortReads == { 0, 1, 2 * 1024 * 1024 }

TotalSizes == { 0, 3, MULTIPART_THRESHOLD - 1, MULTIPART_THRESHOLD }

ChunkSizes == { 0, 1, 2, DEFAULT_CHUNK_SIZE }

\* ------------------------------------------------- create/request.rs
\* CreateFileUploadRequest::new
CreateFileUploadRequest_new(filename, content_type, content_length, mode) ==
    [filename |-> filename, content_type |-> content_type,
     content_length |-> content_length, mode |-> mode]

\* CreateFileUploadRequest::from_file_path
from_file_path(file_path, content_length, mode) ==
    [filename |-> IF file_path.file_name.some THEN file_path.file_name.v
                  ELSE "unknown",
     content_type |-> IF file_path.mime.some THEN file_path.mime.v
                      ELSE "application/octet-stream",
     content_length |-> content_length, mode |-> mode]

NoRequest == CreateFileUploadRequest_new("", "", 0, "unset")

\* --------------------------------------------------- send/request.rs
\* StreamingUploadConfig::new
StreamingUploadConfig_new(filename, content_type, total_size) ==
    [filename |-> filename, content_type |-> content_type,
     total_size |-> Some(total_size), chunk_size |-> DEFAULT_CHUNK_SIZE]

\* A constructor for unknown sizes that records a size of 0.
for_unknown_size_Sized(filename, content_type) ==
    [filename |-> filename, content_type |-> content_type,
     total_size |-> Some(0), chunk_size |-> DEFAULT_CHUNK_SIZE]

\* StreamingUploadConfig::for_unknown_size
for_unknown_size(filename, content_type) ==
    [filename |-> filename, content_type |-> content_type,
     total_size |-> None, chunk_size |-> DEFAULT_CHUNK_SIZE]

\* A setter that builds a fresh configuration and so forgets the size.
with_chunk_size_Rebuilt(config, chunk_size) ==
    [filename |-> config.filename, content_type |-> config.content_type,
     total_size |-> None, chunk_size |-> chunk_size]

\* StreamingUploadConfig::with_chunk_size
with_chunk_size(config, chunk_size) == [config EXCEPT !.chunk_size = chunk_size]

\* StreamingUploadConfig::from_file_path: the name and MIME type are read
\* off the path as in CreateFileUploadRequest::from_file_path, the size is
\* the length tokio::fs::metadata reports.
StreamingUploadConfig_from_file_path(file_path, len) ==
    [filename |-> IF file_path.file_name.some THEN file_path.file_name.v ELSE "unknown",
     content_type |-> IF file_path.mime.some THEN file_path.mime.v
                      ELSE "application/octet-stream",
     total_size |-> Some(len), chunk_size |-> DEFAULT_CHUNK_SIZE]

\* StreamingUploadConfig::has_known_size
has_known_size(config) == config.total_size.some

\* StreamingUploadConfig::total_size()
StreamingUploadConfig_total_size(config) == config.total_size

\* What tokio::fs::metadata(path) gives: the length of the file, or an error.
Metadatas == { None } \cup { Some(s) : s \in TotalSizes }

\* The arguments a caller can pass to the constructors and to
\* with_chunk_size.
ConfigArgs ==
    [filename : FileNames, content_type : ContentTypes, total_size : TotalSizes,
     chunk_size : ChunkSizes, file_path : Paths, metadata : Metadatas]

NoArgs ==
    [filename |-> "", content_type |-> "", total_size |-> 0, chunk_size |-> 0,
     file_path |-> [file_name |-> NoneStr, mime |-> NoneStr], metadata |-> None]

\* The configurations a caller can build.
BaseConfigs ==
    { StreamingUploadConfig_new(f, t, s) :
        f \in FileNames, t \in ContentTypes, s \in TotalSizes }
    \cup { for_unknown_size(f, t) : f \in FileNames, t \in ContentTypes }

Configs == BaseConfigs \cup { with_chunk_size(c, n) : c \in BaseConfigs, n \in ChunkSizes }

NoConfig == [filename |-> "", content_type |-> "", total_size |-> None, chunk_size |-> 0]

\* A single-part request that numbers its only part.
single_part_Numbered(filename, content_type, file_data) ==
    [filename |-> filename, content_type |-> content_type,
     file_data |-> file_data, part_number |-> Some(1)]

\* SendFileUploadRequest::single_part
single_part(filename, content_type, file_data) ==
    [filename |-> filename, content_type |-> content_type,
     file_data |-> file_data, part_number |-> None]

\* SendFileUploadRequest::multi_part
multi_part(filename, content_type, file_data, part_number) ==
    [filename |-> filename, content_type |-> content_type,
     file_data |-> file_data, part_number |-> Some(part_number)]

\* ------------------------------------------------------------ readers
\* An AsyncRead over len bytes; pos bytes were consumed by reads calls of
\* read / read_to_end.
NewReader(len, short) == [len |-> len, short |-> short, pos |-> 0, reads |-> 0]

NoReader == NewReader(0, 0)

\* The number of reads a source needs at most under a configuration.
ReadsNeeded(reader, config) ==
    LET c == config.chunk_size
        g == IF reader.short = 0 THEN c ELSE Min(c, reader.short)
    IN IF c = 0 \/ reader.len = 0 THEN 0 ELSE (reader.len + g - 1) \div g

Readers(config) ==
    { r \in { NewReader(n, s) : n \in StreamLens, s \in ShortReads } :
        ReadsNeeded(r, config) <= MaxReads }

\* What one AsyncRead::read into a buffer of buffer_len bytes may return.
ReadResults(reader, buffer_len) ==
    LET avail == Min(buffer_len, reader.len - reader.pos)
    IN { avail } \cup (IF reader.short > 0 THEN { Min(reader.short, avail) } ELSE {})

\* ------------------------------------------------------ the remote side
\* objects/file_upload.rs: what the model keeps of a FileUpload.  request_id
\* is the position in calls of the call that returned it.
FileUpload(id, status, request_id) ==
    [id |-> id, status |-> status, request_id |-> request_id]

NoFileUpload == FileUpload(0, "none", 0)

\* A call of one of the three remote operations, as logged in calls.
Call(u, op, id, filename, content_type, content_length, mode, file_data, part_number) ==
    [up |-> u, op |-> op, id |-> id, filename |-> filename,
     content_type |-> content_type, content_length |-> content_length,
     mode |-> mode, file_data |-> file_data, part_number |-> part_number,
     state |-> "inflight", fault |-> "none", error |-> "none"]

\* A create that declares the mode the size suggests, not the mode of the
\* request.
CreateCall_Auto(u, request) ==
    Call(u, "create_file_upload", 0, request.filename, request.content_type,
         request.content_length,
         IF request.content_length >= MULTIPART_THRESHOLD THEN "MultiPart"
         ELSE "SinglePart",
         Empty, None)

\* create_file_upload(request): the call as it is issued.
CreateCall(u, request) ==
    Call(u, "create_file_upload", 0, request.filename, request.content_type,
         request.content_length, request.mode, Empty, None)

\* A send that does not name the session create_file_upload opened.
SendCall_NoId(u, file_upload_id, request) ==
    Call(u, "send_file_upload", 0, request.filename,
         request.content_type, 0, "-", request.file_data, request.part_number)

\* send_file_upload(file_upload_id, request): the call as it is issued.
SendCall(u, file_upload_id, request) ==
    Call(u, "send_file_upload", file_upload_id, request.filename,
         request.content_type, 0, "-", request.file_data, request.part_number)

CompleteCall(u, file_upload_id) ==
    Call(u, "complete_file_upload", file_upload_id, "", "", 0, "-", Empty, None)

\* How a call that returns a FileUpload can end: fault (what went wrong, if
\* anything) and the NotionClientError variant it is mapped to.
JsonOutcomes ==
    { [fault |-> "none", error |-> "none"],
      [fault |-> "transport", error |-> "FailedToRequest"],
      [fault |-> "body", error |-> "FailedToText"],
      [fault |-> "malformed", error |-> "FailedToDeserialize"],
      [fault |-> "status", error |-> "InvalidStatusCode"] }

\* send_file_upload: the form cannot be built for a MIME string that does
\* not parse; otherwise the request succeeds, fails in transport, or gets an
\* error status, which error_for_status maps to the same variant.
SendOutcomes(content_type) ==
    IF ~ValidMime(content_type)
    THEN { [fault |-> "mime", error |-> "FailedToBuildRequest"] }
    ELSE { [fault |-> "none", error |-> "none"],
           [fault |-> "transport", error |-> "FailedToRequest"],
           [fault |-> "status", error |-> "FailedToRequest"] }

\* ------------------------------------------------------------ the state
\* uploads[u]: the frame of upload call u.
\*   pc           where the call stands
\*   entry        the public function that was called
\*   stream       TRUE for upload_file_with_stream
\*   file_data    the buffer of a buffered upload, or what read_to_end read
\*   reader       the AsyncRead of a streaming upload
\*   config       its StreamingUploadConfig
\*   request      the CreateFileUploadRequest
\*   file_upload  the local variable file_upload
\*   chunks, index   the chunks vector and the loop index (buffered)
\*   part_number, buffer_len, chunk   the locals of the streaming loop
\*   result       what the call returned
\*   args         the arguments a caller builds a StreamingUploadConfig from
\*   parts_before the number of parts sent before the calls kept in calls
\*                (0 unless the model takes up an upload in mid-course)
\* calls: the remote calls issued so far, in issue order.
\* sessions: the number of upload sessions the remote side has opened.
NoResult == [kind |-> "none", file_upload |-> NoFileUpload, error |-> "none", source |-> "none"]

Ok(file_upload) == [kind |-> "ok", file_upload |-> file_upload, error |-> "none", source |-> "none"]

Err(error, source) == [kind |-> "err", file_upload |-> NoFileUpload, error |-> error, source |-> source]

Frame(pc) ==
    [pc |-> pc, entry |-> "", stream |-> FALSE, file_data |-> Empty,
     reader |-> NoReader, config |-> NoConfig, request |-> NoRequest,
     file_upload |-> NoFileUpload, chunks |-> << >>, index |-> 0,
     part_number |-> 0, buffer_len |-> 0, chunk |-> Empty, result |-> NoResult,
     args |-> NoArgs, parts_before |-> Zero]

Init ==
    /\ uploads = [u \in Uploads |-> IF u = 1 THEN Frame("start") ELSE Frame("unused")]
    /\ calls = << >>
    /\ sessions = 0

\* A response slot shared by all uploads: an upload takes the response of
\* whatever call is in flight for its own.
InFlight_Shared(u) == { i \in 1..Len(calls) : calls[i].state = "inflight" }

\* The positions in calls of the calls of upload u that have not returned.
InFlight(u) == { i \in 1..Len(calls) : calls[i].up = u /\ calls[i].state = "inflight" }

\* Issue a remote call and suspend at pc until it returns.
Issue(u, call, pc, frame) ==
    /\ calls' = Append(calls, call)
    /\ uploads' = [uploads EXCEPT ![u] = [frame EXCEPT !.pc = pc]]

\* Return from the upload call.
Return(u, result, frame) ==
    uploads' = [uploads EXCEPT ![u] = [frame EXCEPT !.pc = "done", !.result = result]]

\* Mark call i as returned with outcome o.
Returned(i, o) ==
    [calls EXCEPT ![i].state = IF o.error = "none" THEN "ok" ELSE "err",
                  ![i].fault = o.fault, ![i].error = o.error]

\* ------------------------------------------------------- helpers.rs
\* The threshold compared with > instead of >=.
AutoMode_Strict(content_length) ==
    IF content_length > MULTIPART_THRESHOLD THEN "MultiPart" ELSE "SinglePart"

\* upload_file_auto: the mode chosen for a buffer of content_length bytes.
AutoMode(content_length) ==
    IF content_length >= MULTIPART_THRESHOLD THEN "MultiPart" ELSE "SinglePart"

\* upload_file_auto_stream: the mode chosen for config.total_size.
AutoModeStream(total_size) ==
    IF total_size.some /\ total_size.v >= MULTIPART_THRESHOLD THEN "MultiPart"
    ELSE IF total_size.some THEN "SinglePart"
    ELSE "MultiPart"

\* Option::unwrap_or
unwrap_or(opt, default) == IF opt.some THEN opt.v ELSE default

\* upload_file_with_request, up to its first await: create_file_upload.
upload_file_with_request(u, entry, request, file_data) ==
    /\ Issue(u, CreateCall(u, request), "create",
             [uploads[u] EXCEPT !.entry = entry, !.stream = FALSE,
                                !.request = request, !.file_data = file_data])
    /\ UNCHANGED sessions

\* upload_file_with_stream, up to its first await: create_file_upload.
upload_file_with_stream(u, entry, reader, request, config) ==
    /\ Issue(u, CreateCall(u, request), "create",
             [uploads[u] EXCEPT !.entry = entry, !.stream = TRUE,
                                !.request = request, !.reader = reader,
                                !.config = config])
    /\ UNCHANGED sessions

upload_file_auto(u) ==
    /\ uploads[u].pc = "start"
    /\ \E file_path \in Paths, n \in BufferLens :
         LET file_data == Slice(0, n)
             content_length == BytesLen(file_data)
             mode == AutoMode(content_length)
             request == from_file_path(file_path, content_length, mode)
         IN upload_file_with_request(u, "upload_file_auto", request, file_data)

\* The explicit entry point applying the threshold of upload_file_auto.
upload_file_single_part_Auto(u) ==
    /\ uploads[u].pc = "start"
    /\ \E file_path \in Paths, n \in BufferLens :
         LET file_data == Slice(0, n)
             content_length == BytesLen(file_data)
             request == from_file_path(file_path, content_length,
                                       AutoMode(content_length))
         IN upload_file_with_request(u, "upload_file_single_part", request, file_data)

\* upload_file_single_part: SinglePart, whatever the length of the buffer.
upload_file_single_part(u) ==
    /\ uploads[u].pc = "start"
    /\ \E file_path \in Paths, n \in BufferLens :
         LET file_data == Slice(0, n)
             content_length == BytesLen(file_data)
             request == from_file_path(file_path, content_length, "SinglePart")
         IN upload_file_with_request(u, "upload_file_single_part", request, file_data)

upload_file_multi_part(u) ==
    /\ uploads[u].pc = "start"
    /\ \E file_path \in Paths, n \in BufferLens :
         LET file_data == Slice(0, n)
             content_length == BytesLen(file_data)
             request == from_file_path(file_path, content_length, "MultiPart")
         IN upload_file_with_request(u, "upload_file_multi_part", request, file_data)

upload_file_auto_stream(u) ==
    /\ uploads[u].pc = "start"
    /\ \E config \in Configs : \E reader \in Readers(config) :
         LET mode == AutoModeStream(config.total_size)
             total_size == unwrap_or(config.total_size, 0)
             request == CreateFileUploadRequest_new(config.filename,
                            config.content_type, total_size, mode)
         IN upload_file_with_stream(u, "upload_file_auto_stream", reader, request, config)

\* The check for an unknown size left out (total_size.unwrap_or(0) instead).
SizeUnknown_Unchecked(config) == FALSE

\* upload_file_single_part_stream: the early return for an unknown size.
SizeUnknown(config) == ~config.total_size.some

upload_file_single_part_stream(u) ==
    /\ uploads[u].pc = "start"
    /\ \E config \in Configs : \E reader \in Readers(config) :
         IF SizeUnknown(config)
         THEN /\ Return(u, Err("IoError", "InvalidInput"),
                        [uploads[u] EXCEPT !.entry = "upload_file_single_part_stream",
                                           !.stream = TRUE, !.reader = reader,
                                           !.config = config])
              /\ UNCHANGED <<calls, sessions>>
         ELSE LET total_size == config.total_size.v
                  request == CreateFileUploadRequest_new(config.filename,
                                 config.content_type, total_size, "SinglePart")
              IN upload_file_with_stream(u, "upload_file_single_part_stream",
                                         reader, request, config)

upload_file_multi_part_stream(u) ==
    /\ uploads[u].pc = "start"
    /\ \E config \in Configs : \E reader \in Readers(config) :
         LET total_size == unwrap_or(config.total_size, 0)
             request == CreateFileUploadRequest_new(config.filename,
                            config.content_type, total_size, "MultiPart")
         IN upload_file_with_stream(u, "upload_file_multi_part_stream",
                                    reader, request, config)

\* The entry point for unknown sizes trusting a size the config carries, as
\* upload_file_auto_stream does.
upload_stream_unknown_size_Auto(u) ==
    /\ uploads[u].pc = "start"
    /\ \E config \in Configs : \E reader \in Readers(config) :
         LET request == CreateFileUploadRequest_new(config.filename,
                            config.content_type,
                            unwrap_or(config.total_size, 0),
                            AutoModeStream(config.total_size))
         IN upload_file_with_stream(u, "upload_stream_unknown_size",
                                    reader, request, config)

\* upload_stream_unknown_size: MultiPart with content_length 0, whatever the
\* config says.
upload_stream_unknown_size(u) ==
    /\ uploads[u].pc = "start"
    /\ \E config \in Configs : \E reader \in Readers(config) :
         LET request == CreateFileUploadRequest_new(config.filename,
                            config.content_type, 0, "MultiPart")
         IN upload_file_with_stream(u, "upload_stream_unknown_size",
                                    reader, request, config)

\* The error of create_file_upload dropped: the upload goes on without it.
CreateFailed_Ignored(o) == FALSE

\* The `?` after create_file_upload(...).await: an Err returns at once.
CreateFailed(o) == o.error # "none"

\* create_file_upload returns (create.rs): on success the remote side has
\* opened a session and the FileUpload describing it is bound to file_upload.
create_file_upload_return(u) ==
    /\ uploads[u].pc = "create"
    /\ \E i \in InFlight(u), o \in JsonOutcomes :
         /\ calls' = Returned(i, o)
         /\ IF CreateFailed(o)
            THEN /\ Return(u, Err(o.error, o.fault), uploads[u])
                 /\ UNCHANGED sessions
            ELSE /\ sessions' = sessions + 1
                 /\ uploads' = [uploads EXCEPT
                        ![u].pc = "match_mode",
                        ![u].file_upload = FileUpload(sessions + 1, "pending", i)]

\* The send of a part not awaited: the loop goes on while it is in flight.
PcAfterSendPart_NotAwaited(stream) == IF stream THEN "read" ELSE "for_chunks"

\* The send of a part handed to a task whose result nothing waits for: the
\* upload is parked where no response can wake it.
PcAfterSendPart_Parked(stream) == "parked"

\* Where the upload stands after it called send_file_upload for a part: it
\* awaits the call.
PcAfterSendPart(stream) == "send_part"

\* upload_file_with_request, `match request.mode`: SinglePart sends the whole
\* buffer in one call without a part number; MultiPart cuts the buffer into
\* chunks of CHUNK_SIZE bytes.
upload_file_with_request_match(u) ==
    LET f == uploads[u] IN
    /\ f.pc = "match_mode"
    /\ ~f.stream
    /\ UNCHANGED sessions
    /\ IF f.request.mode = "SinglePart"
       THEN Issue(u, SendCall(u, f.file_upload.id,
                      single_part(f.request.filename, f.request.content_type,
                                  f.file_data)),
                  "send_single", f)
       ELSE /\ uploads' = [uploads EXCEPT
                   ![u].pc = "for_chunks",
                   ![u].chunks = Chunks(f.file_data, CHUNK_SIZE),
                   ![u].index = 0]
            /\ UNCHANGED calls

\* (index + 1) as u32: the part number of the chunk at a (0-based) index of
\* the chunks vector.  The cast keeps the low 32 bits; an index is counted
\* here as a TLC integer, below 2^31, where the pattern is the number.
PartNumberOf(index) == index + 1

\* upload_file_with_request, one turn of `for (index, chunk) in chunks`: send
\* the next chunk, or leave the loop and call complete_file_upload.
upload_file_with_request_loop(u) ==
    LET f == uploads[u] IN
    /\ f.pc = "for_chunks"
    /\ UNCHANGED sessions
    /\ IF f.index < Len(f.chunks)
       THEN LET part_number == PartNumberOf(f.index)
                chunk == f.chunks[f.index + 1]
            IN Issue(u, SendCall(u, f.file_upload.id,
                          multi_part(f.request.filename, f.request.content_type,
                                     chunk, part_number)),
                     PcAfterSendPart(FALSE),
                     [f EXCEPT !.part_number = part_number, !.chunk = chunk])
       ELSE Issue(u, CompleteCall(u, f.file_upload.id), "complete", f)

\* One read of at most one byte instead of a read to the end.
ReadToEnd_OneRead(reader) == Slice(reader.pos, Min(1, reader.len - reader.pos))

\* AsyncReadExt::read_to_end: everything from the reader's position to the
\* end of the source.
ReadToEnd(reader) == Slice(reader.pos, reader.len - reader.pos)

\* A read error that still finalizes the session with the parts sent so far
\* before the upload returns the error.
OnReadError_Finalize(u, g) ==
    /\ Return(u, Err("IoError", "read"), g)
    /\ calls' = Append(calls, CompleteCall(u, g.file_upload.id))

\* A read error that is recorded while the upload carries on.
OnReadError_Continue(u, g) ==
    /\ uploads' = [uploads EXCEPT ![u].result = Err("IoError", "read")]
    /\ UNCHANGED calls

\* .map_err(|e| NotionClientError::IoError { source: e })? after read and
\* read_to_end: the upload returns the error, no call is issued.
OnReadError(u, g) ==
    /\ Return(u, Err("IoError", "read"), g)
    /\ UNCHANGED calls

\* The single-part arm comparing what it read with the declared length and
\* refusing to send on a mismatch.
upload_file_with_stream_match_Checked(u) ==
    LET f == uploads[u] IN
    /\ f.pc = "match_mode"
    /\ f.stream
    /\ UNCHANGED sessions
    /\ IF f.request.mode = "SinglePart"
       THEN \E read_ok \in BOOLEAN :
              LET file_data == ReadToEnd(f.reader)
                  g == [f EXCEPT !.reader.reads = @ + 1]
              IN IF ~read_ok
                 THEN OnReadError(u, g)
                 ELSE IF BytesLen(file_data) # f.request.content_length
                 THEN /\ Return(u, Err("IoError", "length"),
                                [g EXCEPT !.reader.pos = f.reader.len])
                      /\ UNCHANGED calls
                 ELSE Issue(u, SendCall(u, f.file_upload.id,
                                single_part(f.config.filename,
                                            f.config.content_type, file_data)),
                            "send_single",
                            [g EXCEPT !.reader.pos = f.reader.len,
                                      !.file_data = file_data])
       ELSE /\ uploads' = [uploads EXCEPT
                   ![u].pc = "read",
                   ![u].part_number = 1,
                   ![u].buffer_len = f.config.chunk_size]
            /\ UNCHANGED calls

\* upload_file_with_stream, `match request.mode`: SinglePart reads the whole
\* stream into memory and sends it in one call; MultiPart sets up the part
\* counter and a buffer of chunk_size bytes.
upload_file_with_stream_match(u) ==
    LET f == uploads[u] IN
    /\ f.pc = "match_mode"
    /\ f.stream
    /\ UNCHANGED sessions
    /\ IF f.request.mode = "SinglePart"
       THEN \E read_ok \in BOOLEAN :
              LET file_data == ReadToEnd(f.reader)
                  g == [f EXCEPT !.reader.reads = @ + 1]
              IN IF read_ok
                 THEN Issue(u, SendCall(u, f.file_upload.id,
                                single_part(f.config.filename,
                                            f.config.content_type, file_data)),
                            "send_single",
                            [g EXCEPT !.reader.pos = f.reader.len,
                                      !.file_data = file_data])
                 ELSE OnReadError(u, g)
       ELSE /\ uploads' = [uploads EXCEPT
                   ![u].pc = "read",
                   ![u].part_number = 1,
                   ![u].buffer_len = f.config.chunk_size]
            /\ UNCHANGED calls

\* buffer[..bytes_read].to_vec(): the bytes the read put into the buffer.
ChunkRead(reader, bytes_read) == Slice(reader.pos, bytes_read)

\* upload_file_with_stream, one turn of `loop`: read into the buffer; an
\* error returns, 0 bytes leave the loop and call complete_file_upload,
\* otherwise the bytes read are sent as the next part.
upload_file_with_stream_loop(u) ==
    LET f == uploads[u]
        g == [f EXCEPT !.reader.reads = @ + 1]
    IN
    /\ f.pc = "read"
    /\ UNCHANGED sessions
    /\ \/ OnReadError(u, g)
       \/ \E bytes_read \in ReadResults(f.reader, f.buffer_len) :
            IF bytes_read = 0
            THEN Issue(u, CompleteCall(u, f.file_upload.id), "complete", g)
            ELSE LET chunk == ChunkRead(f.reader, bytes_read)
                 IN Issue(u, SendCall(u, f.file_upload.id,
                               multi_part(f.config.filename, f.config.content_type,
                                          chunk, f.part_number)),
                          PcAfterSendPart(TRUE),
                          [g EXCEPT !.reader.pos = @ + bytes_read, !.chunk = chunk])

\* The result of send_file_upload dropped instead of propagated with `?`.
SendFailed_Ignored(o) == FALSE

\* Only a transport failure is propagated; a rejected send passes for sent.
SendFailed_TransportOnly(o) == o.fault = "transport"

\* The `?` after send_file_upload(...).await: an Err returns at once.
SendFailed(o) == o.error # "none"

\* part_number += 1 on a u32 overflows when part_number is u32::MAX.
PartNumberOverflows(part_number) == part_number = U32_MAX

\* What the overflow does depends on the build: with overflow checks (the
\* default of a debug build) the addition panics, without them (the default
\* of a release build) it wraps around.
OverflowChecks == BOOLEAN

\* A loop that forgets to advance the part counter.
NextPartNumber_Stuck(part_number) == part_number

\* part_number += 1 without overflow checks: the next 32-bit pattern, which
\* after u32::MAX is 0.
NextPartNumber(part_number) ==
    IF part_number = PATTERN_MAX THEN -PATTERN_MAX - 1 ELSE part_number + 1

\* send_file_upload returns (send.rs).  After the only send of a SinglePart
\* upload the upload returns Ok(file_upload); after a part, the loop goes on:
\* the streaming loop advances its part counter, which panics or wraps
\* around when it overflows.
send_file_upload_return(u) ==
    LET f == uploads[u] IN
    /\ f.pc \in {"send_single", "send_part"}
    /\ UNCHANGED sessions
    /\ \E i \in InFlight(u) : \E o \in SendOutcomes(calls[i].content_type) :
         /\ calls' = Returned(i, o)
         /\ IF SendFailed(o)
            THEN Return(u, Err(o.error, o.fault), f)
            ELSE IF f.pc = "send_single"
            THEN Return(u, Ok(f.file_upload), f)
            ELSE IF f.stream /\ PartNumberOverflows(f.part_number)
            THEN \E overflow_checks \in OverflowChecks :
                   IF overflow_checks
                   THEN uploads' = [uploads EXCEPT
                            ![u].pc = "panicked",
                            ![u].chunk = Empty]
                   ELSE uploads' = [uploads EXCEPT
                            ![u].pc = "read",
                            ![u].chunk = Empty,
                            ![u].part_number = NextPartNumber(f.part_number)]
            ELSE IF f.stream
            THEN uploads' = [uploads EXCEPT
                     ![u].pc = "read",
                     ![u].chunk = Empty,
                     ![u].part_number = NextPartNumber(f.part_number)]
            ELSE uploads' = [uploads EXCEPT
                     ![u].pc = "for_chunks",
                     ![u].chunk = Empty,
                     ![u].index = f.index + 1]

\* The error of complete_file_upload dropped: the upload reports success.
CompleteFailed_Ignored(o) == FALSE

\* The `?` after complete_file_upload(...).await: an Err returns at once.
CompleteFailed(o) == o.error # "none"

\* The response of complete_file_upload dropped: file_upload keeps the value
\* create_file_upload gave it.
Completed_Stale(file_upload, response) == file_upload

\* file_upload = self.complete_file_upload(..).await?: the value bound to
\* file_upload, which the upload returns.
Completed(file_upload, response) == response

\* complete_file_upload returns (complete.rs).
complete_file_upload_return(u) ==
    LET f == uploads[u] IN
    /\ f.pc = "complete"
    /\ UNCHANGED sessions
    /\ \E i \in InFlight(u), o \in JsonOutcomes :
         /\ calls' = Returned(i, o)
         /\ IF CompleteFailed(o)
            THEN Return(u, Err(o.error, o.fault), f)
            ELSE LET file_upload ==
                         Completed(f.file_upload, FileUpload(calls[i].id, "complete", i))
                 IN Return(u, Ok(file_upload),
                           [f EXCEPT !.file_upload = file_upload])

Next ==
    \E u \in Uploads :
        \/ upload_file_auto(u)
        \/ upload_file_single_part(u)
        \/ upload_file_multi_part(u)
        \/ upload_file_auto_stream(u)
        \/ upload_file_single_part_stream(u)
        \/ upload_file_multi_part_stream(u)
        \/ upload_stream_unknown_size(u)
        \/ create_file_upload_return(u)
        \/ upload_file_with_request_match(u)
        \/ upload_file_with_request_loop(u)
        \/ upload_file_with_stream_match(u)
        \/ upload_file_with_stream_loop(u)
        \/ send_file_upload_return(u)
        \/ complete_file_upload_return(u)

Spec == Init /\ [][Next]_vars

\* ------------------------------------- building a StreamingUploadConfig
\* A caller holding arguments (pc "args") calls one of the constructors
\* (pc "constructed") and may then call with_chunk_size (pc "customised").
ConfigInit ==
    /\ \E a \in ConfigArgs :
         uploads = [u \in Uploads |->
                      IF u = 1 THEN [Frame("args") EXCEPT !.args = a]
                      ELSE Frame("unused")]
    /\ calls = << >>
    /\ sessions = 0

\* The frame after a constructor returned config.
Constructed(u, entry, config) ==
    /\ uploads' = [uploads EXCEPT ![u].pc = "constructed", ![u].entry = entry,
                                  ![u].config = config]
    /\ UNCHANGED <<calls, sessions>>

StreamingUploadConfig_new_call(u) ==
    LET a == uploads[u].args IN
    /\ uploads[u].pc = "args"
    /\ Constructed(u, "StreamingUploadConfig::new",
                   StreamingUploadConfig_new(a.filename, a.content_type, a.total_size))

\* from_file_path returns the io::Error of tokio::fs::metadata, if any.
StreamingUploadConfig_from_file_path_call(u) ==
    LET a == uploads[u].args IN
    /\ uploads[u].pc = "args"
    /\ IF a.metadata.some
       THEN Constructed(u, "StreamingUploadConfig::from_file_path",
                        StreamingUploadConfig_from_file_path(a.file_path, a.metadata.v))
       ELSE /\ Return(u, Err("io::Error", "metadata"),
                      [uploads[u] EXCEPT !.entry = "StreamingUploadConfig::from_file_path"])
            /\ UNCHANGED <<calls, sessions>>

for_unknown_size_call(u) ==
    LET a == uploads[u].args IN
    /\ uploads[u].pc = "args"
    /\ Constructed(u, "StreamingUploadConfig::for_unknown_size",
                   for_unknown_size(a.filename, a.content_type))

with_chunk_size_call(u) ==
    /\ uploads[u].pc = "constructed"
    /\ uploads' = [uploads EXCEPT
           ![u].pc = "customised",
           ![u].config = with_chunk_size(uploads[u].config, uploads[u].args.chunk_size)]
    /\ UNCHANGED <<calls, sessions>>

ConfigNext ==
    \E u \in Uploads :
        \/ StreamingUploadConfig_new_call(u)
        \/ StreamingUploadConfig_from_file_path_call(u)
        \/ for_unknown_size_call(u)
        \/ with_chunk_size_call(u)

ConfigSpec == ConfigInit /\ [][ConfigNext]_vars

\* ------------------------------------------- two uploads on one endpoint
\* Two tasks call upload helpers on the same FileUploadsEndpoint (&self); the
\* steps of the two uploads interleave in any order.  The inputs are kept
\* small: streams of one or two bytes read one byte at a time, and buffers
\* of no byte or of 5 MiB + 1 byte.
ConcurrentInit ==
    /\ uploads = [u \in Uploads |-> Frame("start")]
    /\ calls = << >>
    /\ sessions = 0

ConcurrentConfigs ==
    { with_chunk_size(for_unknown_size(f, "video/mp4"), 1) : f \in FileNames }

ConcurrentReaders == { NewReader(n, 0) : n \in 1..2 }

ConcurrentBufferLens == { 0, CHUNK_SIZE + 1 }

\* upload_file_multi_part_stream, called with one of the small inputs.
upload_file_multi_part_stream_concurrent(u) ==
    /\ uploads[u].pc = "start"
    /\ \E config \in ConcurrentConfigs, reader \in ConcurrentReaders :
         LET total_size == unwrap_or(config.total_size, 0)
             request == CreateFileUploadRequest_new(config.filename,
                            config.content_type, total_size, "MultiPart")
         IN upload_file_with_stream(u, "upload_file_multi_part_stream",
                                    reader, request, config)

\* upload_file_multi_part, called with one of the small inputs.
upload_file_multi_part_concurrent(u) ==
    /\ uploads[u].pc = "start"
    /\ \E file_path \in Paths, n \in ConcurrentBufferLens :
         LET file_data == Slice(0, n)
             content_length == BytesLen(file_data)
             request == from_file_path(file_path, content_length, "MultiPart")
         IN upload_file_with_request(u, "upload_file_multi_part", request, file_data)

\* ------------------------------------------------- the part counter
\* A streaming MultiPart upload taken up in the middle of its loop, after
\* parts_before parts went through: create_file_upload has returned, the
\* reader holds the rest of the source, every part so far was sent and
\* accepted (so the content type is a valid one), and the counter has been
\* incremented parts_before times from 1 without overflowing.  The sends of
\* those parts are not kept in calls.

\* The most chunks left in the source.
MaxTail == 4

\* The numbers of parts already sent: none, and just below 2^16, 2^31 and
\* 2^32.  The counter has not overflowed as long as parts_before + 1 <=
\* u32::MAX.
CounterStarts ==
    { Zero, Big(0, HALF - 2),
      Big(HALF \div 2 - 1, HALF - 3), Big(HALF \div 2 - 1, HALF - 2),
      Big(HALF - 1, HALF - 4), Big(HALF - 1, HALF - 3), Big(HALF - 1, HALF - 2) }

\* The frame of upload_file_with_stream at the top of `loop` after
\* parts_before turns that sent a part.
MidStream(config, reader, parts_before) ==
    LET total_size == unwrap_or(config.total_size, 0)
        request == CreateFileUploadRequest_new(config.filename,
                       config.content_type, total_size, "MultiPart")
    IN [Frame("read") EXCEPT
           !.entry = "upload_stream_unknown_size", !.stream = TRUE,
           !.request = request, !.reader = reader, !.config = config,
           !.file_upload = FileUpload(1, "pending", 1),
           !.part_number = AsU32(BigAdd(parts_before, 1)),
           !.buffer_len = config.chunk_size,
           !.parts_before = parts_before]

CounterInit ==
    \E parts_before \in CounterStarts, n \in 0..MaxTail, filename \in FileNames :
        LET config == with_chunk_size(for_unknown_size(filename, "video/mp4"), 1)
            f == MidStream(config, NewReader(n, 0), parts_before)
        IN /\ uploads = [u \in Uploads |-> IF u = 1 THEN f ELSE Frame("unused")]
           /\ calls = << [CreateCall(1, f.request) EXCEPT !.state = "ok"] >>
           /\ sessions = 1

CounterNext ==
    \E u \in Uploads :
        \/ upload_file_with_stream_loop(u)
        \/ send_file_upload_return(u)
        \/ complete_file_upload_return(u)

CounterSpec == CounterInit /\ [][CounterNext]_vars

\* A step of upload u after it was called.
UploadStep(u) ==
    \/ create_file_upload_return(u)
    \/ upload_file_with_request_match(u)
    \/ upload_file_with_request_loop(u)
    \/ upload_file_with_stream_match(u)
    \/ upload_file_with_stream_loop(u)
    \/ send_file_upload_return(u)
    \/ complete_file_upload_return(u)

ConcurrentNext ==
    \E u \in Uploads :
        \/ upload_file_multi_part_stream_concurrent(u)
        \/ upload_file_multi_part_concurrent(u)
        \/ UploadStep(u)

ConcurrentSpec == ConcurrentInit /\ [][ConcurrentNext]_vars

\* ------------------------------------------------------------ progress
\* An upload that was called is polled until it returns, and every remote
\* call and every read it awaits returns eventually: a step of the upload
\* that stays possible is taken.  Whether an upload is called at all is up
\* to the caller.
FairSpec == Spec /\ \A u \in Uploads : WF_vars(UploadStep(u))

\* ------------------------------------------------------------ observers
\* The positions in calls of the calls of upload u, in issue order.
PositionsOf(u) == { i \in 1..Len(calls) : calls[i].up = u }

CallsOf(u) == SelectSeq(calls, LAMBDA c : c.up = u)

SendsOf(u) == SelectSeq(calls, LAMBDA c : c.up = u /\ c.op = "send_file_upload")

CreatesOf(u) == SelectSeq(calls, LAMBDA c : c.up = u /\ c.op = "create_file_upload")

CompletesOf(u) == SelectSeq(calls, LAMBDA c : c.up = u /\ c.op = "complete_file_upload")

\* The position in calls of the last call of upload u (0 if it made none).
LastPosition(u) ==
    IF PositionsOf(u) = {} THEN 0
    ELSE CHOOSE i \in PositionsOf(u) : \A j \in PositionsOf(u) : j <= i

\* The position in calls of the first call of upload u (0 if it made none).
FirstPosition(u) ==
    IF PositionsOf(u) = {} THEN 0
    ELSE CHOOSE i \in PositionsOf(u) : \A j \in PositionsOf(u) : i <= j

\* The uploads that have been called.
Started(u) == uploads[u].pc \notin {"start", "unused"}

Succeeded(u) == uploads[u].pc = "done" /\ uploads[u].result.kind = "ok"

MultiPart(u) == Started(u) /\ uploads[u].request.mode = "MultiPart"

SinglePart(u) == Started(u) /\ uploads[u].request.mode = "SinglePart"

\* The whole content of the source of upload u.
Source(u) ==
    IF uploads[u].stream THEN Slice(0, uploads[u].reader.len)
    ELSE uploads[u].file_data

\* The chunk size upload u works with.
ChunkSizeOf(u) ==
    IF uploads[u].stream THEN uploads[u].config.chunk_size ELSE CHUNK_SIZE

\* The buffers of a sequence of send calls, in order.
DataOf(sends) == [k \in 1..Len(sends) |-> sends[k].file_data]

\* ------------------------------------------------------------ claims
\* C1: in every multi-part upload, buffered or streaming, the k-th
\* send_file_upload call of the session carries part number k: the numbers
\* sent are 1, 2, ..., N in that order, none repeated, none skipped.
C1_PartNumbersContiguous ==
    \A u \in Uploads :
        MultiPart(u) =>
            \A k \in 1..Len(SendsOf(u)) : SendsOf(u)[k].part_number = Some(k)

\* C1 witness: a streaming multi-part upload that succeeded after three parts.
C1_Witness ==
    \E u \in Uploads :
        /\ MultiPart(u) /\ uploads[u].stream /\ Succeeded(u)
        /\ Len(SendsOf(u)) = 3

\* C2: the automatic entry points choose SinglePart for a known size below
\* 20 MiB, MultiPart for a known size of 20 MiB or more, and MultiPart for an
\* unknown size; the size is the buffer's length (upload_file_auto) or
\* config.total_size (upload_file_auto_stream).
C2_AutoModeSelection ==
    \A u \in Uploads :
        /\ (Started(u) /\ uploads[u].entry = "upload_file_auto") =>
              LET s == BytesLen(uploads[u].file_data)
              IN /\ s < 20971520 => CreatesOf(u)[1].mode = "SinglePart"
                 /\ s >= 20971520 => CreatesOf(u)[1].mode = "MultiPart"
        /\ (Started(u) /\ uploads[u].entry = "upload_file_auto_stream") =>
              LET t == uploads[u].config.total_size
              IN /\ (t.some /\ t.v < 20971520) => CreatesOf(u)[1].mode = "SinglePart"
                 /\ (t.some /\ t.v >= 20971520) => CreatesOf(u)[1].mode = "MultiPart"
                 /\ ~t.some => CreatesOf(u)[1].mode = "MultiPart"

\* C2 witness: upload_file_auto was called with a buffer of exactly 20 MiB
\* and went the multi-part way to the end.
C2_Witness ==
    \E u \in Uploads :
        /\ uploads[u].entry = "upload_file_auto"
        /\ BytesLen(uploads[u].file_data) = 20971520
        /\ Succeeded(u)
        /\ Len(CompletesOf(u)) = 1

\* The bytes upload u has taken from its source.
BytesRead(u) ==
    IF uploads[u].stream THEN uploads[u].reader.pos
    ELSE BytesLen(uploads[u].file_data)

\* C3: a successful multi-part upload with chunk size c > 0 issues exactly
\* ceil(totalBytesRead / c) send_file_upload calls (0 for an empty source),
\* each but the last carrying exactly c bytes, also for a streaming reader
\* whose reads return fewer bytes than asked for.
C3_PartCountIsCeiling ==
    \A u \in Uploads :
        (MultiPart(u) /\ Succeeded(u) /\ ChunkSizeOf(u) > 0) =>
            LET c == ChunkSizeOf(u)
                N == (BytesRead(u) + c - 1) \div c
            IN /\ Len(SendsOf(u)) = N
               /\ \A k \in 1..(Len(SendsOf(u)) - 1) :
                      BytesLen(SendsOf(u)[k].file_data) = c

\* C4: if the send_file_upload call for part k of a multi-part upload fails,
\* the upload has returned that failure, the k-1 sends before it succeeded,
\* and no send (so no retry of part k) and no complete_file_upload call
\* follows it.
C4_SendFailureAborts ==
    \A u \in Uploads :
        MultiPart(u) =>
            \A k \in 1..Len(SendsOf(u)) :
                SendsOf(u)[k].state = "err" =>
                    /\ k = Len(SendsOf(u))
                    /\ \A j \in 1..(k - 1) : SendsOf(u)[j].state = "ok"
                    /\ SendsOf(u)[k].part_number = Some(k)
                    /\ calls[LastPosition(u)] = SendsOf(u)[k]
                    /\ CompletesOf(u) = << >>
                    /\ uploads[u].pc = "done"
                    /\ uploads[u].result = Err(SendsOf(u)[k].error, SendsOf(u)[k].fault)

\* C4 witness: the second part of a source of three chunks failed.
C4_Witness ==
    \E u \in Uploads :
        /\ MultiPart(u) /\ ~uploads[u].stream
        /\ Len(uploads[u].chunks) = 3
        /\ Len(SendsOf(u)) = 2
        /\ SendsOf(u)[1].state = "ok"
        /\ SendsOf(u)[2].state = "err"
        /\ uploads[u].pc = "done"

\* C5 as stated: a successful upload returns the FileUpload that its last
\* remote call returned (send_file_upload for SinglePart,
\* complete_file_upload for MultiPart), not the one create_file_upload gave.
C5_ReturnsLastCallsHandle ==
    \A u \in Uploads :
        Succeeded(u) =>
            /\ uploads[u].result.file_upload.request_id = LastPosition(u)
            /\ uploads[u].result.file_upload.request_id # FirstPosition(u)

\* C5 amended: a successful SinglePart upload returns the FileUpload that
\* create_file_upload returned (send_file_upload returns no FileUpload); a
\* successful MultiPart upload returns the one complete_file_upload, its
\* last remote call, returned.
C5_ReturnedHandle ==
    \A u \in Uploads :
        Succeeded(u) =>
            LET r == uploads[u].result.file_upload IN
            /\ SinglePart(u) =>
                 /\ r.request_id = FirstPosition(u)
                 /\ calls[r.request_id].op = "create_file_upload"
                 /\ r.status = "pending"
                 /\ calls[LastPosition(u)].op = "send_file_upload"
            /\ MultiPart(u) =>
                 /\ r.request_id = LastPosition(u)
                 /\ calls[r.request_id].op = "complete_file_upload"
                 /\ r.status = "complete"
            /\ r.id = uploads[u].file_upload.id

\* C5 witness: a SinglePart upload succeeded.
C5_Witness ==
    \E u \in Uploads :
        /\ SinglePart(u) /\ Succeeded(u)
        /\ Len(SendsOf(u)) = 1
        /\ SendsOf(u)[1].state = "ok"

\* C6 as stated: a streaming configuration with chunk size 0 is rejected
\* with a configuration error: the multi-part upload it drives makes no
\* remote call at all and returns that error.
C6_ZeroChunkSizeRejected ==
    \A u \in Uploads :
        (MultiPart(u) /\ uploads[u].stream /\ uploads[u].config.chunk_size = 0) =>
            /\ CallsOf(u) = << >>
            /\ uploads[u].pc = "done"
            /\ uploads[u].result = Err("IoError", "InvalidInput")

\* C7: upload_file_single_part_stream with config.total_size = None returns
\* the invalid-input error at once: no remote call is made for the upload,
\* no session exists for it and the reader is never read.
C7_SinglePartUnknownSizeRejected ==
    \A u \in Uploads :
        ( /\ Started(u)
          /\ uploads[u].entry = "upload_file_single_part_stream"
          /\ ~uploads[u].config.total_size.some ) =>
            /\ uploads[u].pc = "done"
            /\ uploads[u].result = Err("IoError", "InvalidInput")
            /\ CallsOf(u) = << >>
            /\ uploads[u].file_upload = NoFileUpload
            /\ uploads[u].reader.reads = 0
            /\ uploads[u].reader.pos = 0

\* C7 witness: the call was made with an unknown size over a non-empty source.
C7_Witness ==
    \E u \in Uploads :
        /\ uploads[u].entry = "upload_file_single_part_stream"
        /\ ~uploads[u].config.total_size.some
        /\ uploads[u].reader.len > 0
        /\ uploads[u].pc = "done"

\* C8: a SinglePart upload never calls complete_file_upload and sends at most
\* once; its send carries no part number and the whole content of the source,
\* whatever the chunk size and the declared size; a successful SinglePart
\* upload has sent exactly once.
C8_SinglePartSendsWholeSourceOnce ==
    \A u \in Uploads :
        SinglePart(u) =>
            /\ Len(SendsOf(u)) <= 1
            /\ CompletesOf(u) = << >>
            /\ \A k \in 1..Len(SendsOf(u)) :
                   /\ SendsOf(u)[k].part_number = None
                   /\ SendsOf(u)[k].file_data = Source(u)
            /\ Succeeded(u) => Len(SendsOf(u)) = 1

\* C8 witness: a streaming SinglePart upload succeeded on a source longer
\* than its chunk size and of another length than the declared one.
C8_Witness ==
    \E u \in Uploads :
        /\ SinglePart(u) /\ uploads[u].stream /\ Succeeded(u)
        /\ uploads[u].reader.len > uploads[u].config.chunk_size
        /\ uploads[u].reader.len # uploads[u].config.total_size.v
        /\ uploads[u].reader.short > 0

\* C9: for a chunk size c > 0, the buffers of the parts of a successful
\* multi-part upload, concatenated in part-number order, are the content of
\* the source, and no part is empty (no trailing empty part after an exact
\* multiple of c).
C9_RoundTrip ==
    \A u \in Uploads :
        (MultiPart(u) /\ Succeeded(u) /\ ChunkSizeOf(u) > 0) =>
            /\ Concat(DataOf(SendsOf(u))) = Source(u)
            /\ BytesLen(Concat(DataOf(SendsOf(u)))) = BytesRead(u)
            /\ \A k \in 1..Len(SendsOf(u)) : SendsOf(u)[k].file_data # Empty

\* C9 witness: a buffer that is not a multiple of the chunk size was
\* uploaded in three parts.
C9_Witness ==
    \E u \in Uploads :
        /\ MultiPart(u) /\ ~uploads[u].stream /\ Succeeded(u)
        /\ BytesLen(uploads[u].file_data) = 12 * 1024 * 1024
        /\ Len(SendsOf(u)) = 3

\* C10: the remote calls of one upload are issued one at a time and in
\* order: create_file_upload first, every call before the last one has
\* returned successfully before the next was issued, so at most one call is
\* in flight, and nothing follows complete_file_upload.
C10_OneCallAtATime ==
    \A u \in Uploads :
        LET cs == CallsOf(u) IN
        /\ Cardinality(InFlight(u)) <= 1
        /\ \A k \in 1..Len(cs) :
               /\ (k = 1) <=> (cs[k].op = "create_file_upload")
               /\ k < Len(cs) => cs[k].state = "ok"
               /\ cs[k].op = "complete_file_upload" => k = Len(cs)

\* C10 witness: the third send of an upload is in flight, after the create
\* and two sends returned.
C10_Witness ==
    \E u \in Uploads :
        /\ Len(CallsOf(u)) = 4
        /\ CallsOf(u)[4].op = "send_file_upload"
        /\ CallsOf(u)[4].state = "inflight"
        /\ CallsOf(u)[3].state = "ok"

\* C11: a successful MultiPart upload has called complete_file_upload exactly
\* once, as its last remote call, after every part was sent successfully and
\* after the source was exhausted (every byte of it read); a SinglePart
\* upload never calls complete_file_upload.
C11_FinalizeOnceAfterExhaustion ==
    \A u \in Uploads :
        /\ (MultiPart(u) /\ Succeeded(u)) =>
              /\ Len(CompletesOf(u)) = 1
              /\ calls[LastPosition(u)].op = "complete_file_upload"
              /\ \A k \in 1..Len(SendsOf(u)) : SendsOf(u)[k].state = "ok"
              /\ BytesRead(u) = BytesLen(Source(u))
        /\ MultiPart(u) => Len(CompletesOf(u)) <= 1
        /\ SinglePart(u) => CompletesOf(u) = << >>

\* C12: an upload calls create_file_upload at most once, whatever the entry
\* point, mode, source and failures; every send_file_upload and
\* complete_file_upload of the upload is issued after that create returned
\* successfully and carries the id it returned.
C12_OneSessionPerUpload ==
    \A u \in Uploads :
        /\ Len(CreatesOf(u)) <= 1
        /\ \A i \in PositionsOf(u) :
              calls[i].op # "create_file_upload" =>
                 /\ Len(CreatesOf(u)) = 1
                 /\ calls[FirstPosition(u)].op = "create_file_upload"
                 /\ calls[FirstPosition(u)].state = "ok"
                 /\ uploads[u].file_upload.id # 0
                 /\ calls[i].id = uploads[u].file_upload.id
        /\ sessions <= 1

\* A multi-part upload that sent two parts and called complete.
C12_Witness ==
    \E u \in Uploads :
        /\ Len(SendsOf(u)) >= 2
        /\ Len(CompletesOf(u)) = 1
        /\ Succeeded(u)

\* C13: when create_file_upload fails, the upload has returned, its result is
\* the error of that call unchanged, the create is the only remote call the
\* upload ever made (no send_file_upload, no complete_file_upload), and no
\* byte was read from the source (no read was even attempted).
C13_CreateFailureReturnsAtOnce ==
    \A u \in Uploads :
        \A i \in PositionsOf(u) :
            (calls[i].op = "create_file_upload" /\ calls[i].state = "err") =>
                /\ uploads[u].pc = "done"
                /\ uploads[u].result = Err(calls[i].error, calls[i].fault)
                /\ PositionsOf(u) = {i}
                /\ uploads[u].reader.reads = 0
                /\ uploads[u].reader.pos = 0
                /\ uploads[u].chunks = << >>

\* A streaming upload of a non-empty source whose create_file_upload was
\* rejected with an error status.
C13_Witness ==
    \E u \in Uploads :
        /\ uploads[u].stream
        /\ uploads[u].reader.len > 0
        /\ uploads[u].pc = "done"
        /\ Len(CreatesOf(u)) = 1
        /\ CreatesOf(u)[1].state = "err"
        /\ CreatesOf(u)[1].fault = "status"
        /\ uploads[u].result.error = "InvalidStatusCode"

\* The source of upload u yields nothing to send: the buffer has length 0, or
\* the first read of the stream returns 0 bytes.
EmptySource(u) ==
    IF uploads[u].stream
    THEN Min(uploads[u].config.chunk_size, uploads[u].reader.len) = 0
    ELSE BytesLen(uploads[u].file_data) = 0

\* C14: a MultiPart upload of an empty source never calls send_file_upload;
\* once create_file_upload succeeded and the first read did not fail, it
\* calls complete_file_upload exactly once, right after the create, and
\* returns what that call returned: its FileUpload, or its error.
C14_EmptyMultiPart ==
    \A u \in Uploads :
        (MultiPart(u) /\ EmptySource(u)) =>
            /\ SendsOf(u) = << >>
            /\ Len(CreatesOf(u)) = 1
            /\ Len(CompletesOf(u)) <= 1
            /\ uploads[u].pc = "done" =>
                  \/ CreatesOf(u)[1].state = "err"
                  \/ uploads[u].result = Err("IoError", "read")
                  \/ /\ Len(CallsOf(u)) = 2
                     /\ CallsOf(u)[1].state = "ok"
                     /\ CallsOf(u)[2].op = "complete_file_upload"
                     /\ LET c == CallsOf(u)[2]
                        IN uploads[u].result =
                             IF c.state = "ok"
                             THEN Ok(FileUpload(c.id, "complete", LastPosition(u)))
                             ELSE Err(c.error, c.fault)

\* An empty buffer uploaded with upload_file_multi_part, which succeeded
\* with two remote calls.
C14_Witness ==
    \E u \in Uploads :
        /\ uploads[u].entry = "upload_file_multi_part"
        /\ BytesLen(uploads[u].file_data) = 0
        /\ Succeeded(u)
        /\ Len(CallsOf(u)) = 2
        /\ Len(CompletesOf(u)) = 1

\* C15: every send_file_upload call of an upload carries a part number if
\* and only if the create_file_upload call of that upload asked for
\* mode MultiPart.
C15_PartNumberIffMultiPart ==
    \A u \in Uploads :
        \A k \in 1..Len(SendsOf(u)) :
            /\ Len(CreatesOf(u)) = 1
            /\ SendsOf(u)[k].part_number.some <=> CreatesOf(u)[1].mode = "MultiPart"

\* The send of a streaming single-part upload, without a part number, has
\* returned successfully.
C15_Witness ==
    \E u \in Uploads :
        /\ uploads[u].stream
        /\ CreatesOf(u) # << >>
        /\ CreatesOf(u)[1].mode = "SinglePart"
        /\ Len(SendsOf(u)) = 1
        /\ ~SendsOf(u)[1].part_number.some
        /\ Succeeded(u)

\* The size of the source as the caller of upload u declares it: the length
\* of the buffer, or config.total_size.
KnownSize(u) ==
    IF uploads[u].stream THEN uploads[u].config.total_size
    ELSE Some(BytesLen(uploads[u].file_data))

\* C16: an upload started through upload_file_single_part or
\* upload_file_single_part_stream opens its session with mode SinglePart and
\* sends at most one request, without a part number and without a complete
\* call, also when the known size is 20 MiB or more; one started through
\* upload_file_multi_part or upload_file_multi_part_stream opens it with mode
\* MultiPart and numbers every part, also when the known size is below 20 MiB.
\* Only the auto entry points compare the size with the threshold.
C16_ExplicitModeVerbatim ==
    \A u \in Uploads :
        CreatesOf(u) # << >> =>
            LET mode == CreatesOf(u)[1].mode
                entry == uploads[u].entry
            IN /\ entry \in {"upload_file_single_part", "upload_file_single_part_stream"} =>
                     /\ mode = "SinglePart"
                     /\ Len(SendsOf(u)) <= 1
                     /\ \A k \in 1..Len(SendsOf(u)) : ~SendsOf(u)[k].part_number.some
                     /\ CompletesOf(u) = << >>
               /\ entry \in {"upload_file_multi_part", "upload_file_multi_part_stream"} =>
                     /\ mode = "MultiPart"
                     /\ \A k \in 1..Len(SendsOf(u)) : SendsOf(u)[k].part_number.some
                     /\ Succeeded(u) => Len(CompletesOf(u)) = 1
               /\ entry = "upload_file_auto" => mode = AutoMode(KnownSize(u).v)
               /\ entry = "upload_file_auto_stream" => mode = AutoModeStream(KnownSize(u))

\* upload_file_single_part has uploaded a buffer of 20 MiB in one request.
C16_Witness ==
    \E u \in Uploads :
        /\ uploads[u].entry = "upload_file_single_part"
        /\ KnownSize(u).v >= MULTIPART_THRESHOLD
        /\ Succeeded(u)
        /\ Len(SendsOf(u)) = 1
        /\ SendsOf(u)[1].file_data = uploads[u].file_data

C18_ReadErrorAborts ==
    \A u \in Uploads :
        uploads[u].result = Err("IoError", "read") =>
            LET k == uploads[u].reader.reads
            IN /\ uploads[u].pc = "done"
               /\ InFlight(u) = {}
               /\ CompletesOf(u) = << >>
               /\ \A j \in 1..Len(SendsOf(u)) :
                     /\ SendsOf(u)[j].state = "ok"
                     /\ SendsOf(u)[j].part_number = Some(j)
               /\ MultiPart(u) => Len(SendsOf(u)) = k - 1
               /\ SinglePart(u) => SendsOf(u) = << >>

\* The third read of a multi-part stream failed after two parts were sent.
C18_Witness ==
    \E u \in Uploads :
        /\ uploads[u].result = Err("IoError", "read")
        /\ MultiPart(u)
        /\ uploads[u].reader.reads = 3
        /\ Len(SendsOf(u)) = 2

\* C19: send_file_upload reports its failures as create_file_upload does: a
\* send that failed in transport and a send that was answered with an error
\* status end with the error variant create_file_upload gives the same
\* fault (FailedToRequest and InvalidStatusCode), so that the caller of the
\* upload can tell the two apart by the variant returned.
C19_SendErrorsLikeCreate ==
    \A i \in 1..Len(calls) :
        (calls[i].op = "send_file_upload" /\ calls[i].fault \in {"transport", "status"}) =>
            /\ \E o \in JsonOutcomes :
                  o.fault = calls[i].fault /\ o.error = calls[i].error
            /\ uploads[calls[i].up].result.error =
                  IF calls[i].fault = "status" THEN "InvalidStatusCode"
                  ELSE "FailedToRequest"

\* The byte buffers holding chunk data that are alive in the multi-part arm
\* of upload_file_with_stream: buffer, allocated with chunk_size bytes before
\* the loop and dropped when the arm is left (after complete_file_upload
\* returned), and chunk, the copy of what was read (buffer[..bytes_read]
\* .to_vec()), moved into the request and alive until send_file_upload
\* returns.
ResidentChunks(u) ==
    LET f == uploads[u]
        buffer == IF f.stream /\ f.pc \in {"read", "send_part", "complete"}
                     /\ f.buffer_len > 0
                  THEN 1 ELSE 0
        chunk == IF f.stream /\ f.pc = "send_part" /\ f.chunk # Empty
                 THEN 1 ELSE 0
    IN buffer + chunk

\* C20: at every point of a streaming multi-part upload at most one buffer
\* of chunk data is alive, counting the read buffer and the copy handed to
\* send_file_upload.
C20_OneChunkResident ==
    \A u \in Uploads :
        (uploads[u].stream /\ MultiPart(u)) => ResidentChunks(u) <= 1

\* C21: a configuration as a constructor returns it has chunk_size 5 MiB;
\* StreamingUploadConfig::new(filename, content_type, s) has the name and
\* type it was given and total_size Some(s), from_file_path has the length of
\* the file as total_size, for_unknown_size has total_size None; and
\* has_known_size() is true exactly when total_size() is Some.
C21_ConfigConstructors ==
    \A u \in Uploads :
        uploads[u].pc = "constructed" =>
            LET c == uploads[u].config
                a == uploads[u].args
                entry == uploads[u].entry
            IN /\ c.chunk_size = 5 * 1024 * 1024
               /\ entry = "StreamingUploadConfig::new" =>
                     /\ StreamingUploadConfig_total_size(c) = Some(a.total_size)
                     /\ c.filename = a.filename
                     /\ c.content_type = a.content_type
               /\ entry = "StreamingUploadConfig::from_file_path" =>
                     StreamingUploadConfig_total_size(c) = a.metadata
               /\ entry = "StreamingUploadConfig::for_unknown_size" =>
                     /\ StreamingUploadConfig_total_size(c) = None
                     /\ ~has_known_size(c)
                     /\ c.filename = a.filename
                     /\ c.content_type = a.content_type
               /\ has_known_size(c) <=> StreamingUploadConfig_total_size(c).some

\* for_unknown_size has returned a configuration.
C21_Witness ==
    \E u \in Uploads :
        /\ uploads[u].pc = "constructed"
        /\ uploads[u].entry = "StreamingUploadConfig::for_unknown_size"
        /\ ~has_known_size(uploads[u].config)
        /\ uploads[u].config.chunk_size = DEFAULT_CHUNK_SIZE

\* C22: a call of with_chunk_size(n) sets chunk_size to n and leaves
\* filename, content_type and total_size as they were, so has_known_size()
\* and the mode upload_file_auto_stream would choose do not change.
C22_WithChunkSizeFrame ==
    [][\A u \in Uploads :
          (uploads[u].pc = "constructed" /\ uploads'[u].pc = "customised") =>
              LET before == uploads[u].config
                  after == uploads'[u].config
              IN /\ after.chunk_size = uploads[u].args.chunk_size
                 /\ after.filename = before.filename
                 /\ after.content_type = before.content_type
                 /\ after.total_size = before.total_size
                 /\ has_known_size(after) <=> has_known_size(before)
                 /\ AutoModeStream(after.total_size) = AutoModeStream(before.total_size)]_vars

\* with_chunk_size(1) was applied to a configuration of known size 3, which
\* upload_file_auto_stream uploads in SinglePart mode.
C22_Witness ==
    \E u \in Uploads :
        /\ uploads[u].pc = "customised"
        /\ uploads[u].config.chunk_size = 1
        /\ uploads[u].config.total_size = Some(3)
        /\ AutoModeStream(uploads[u].config.total_size) = "SinglePart"

\* The state of the upload state machine a frame is in: Created before the
\* call, MetadataResolved once the request is built and create_file_upload
\* is awaited, SessionOpen when it returned the session, Transmitting while
\* the source is read and sent, Finalizing while complete_file_upload is
\* awaited, Done and Failed when the upload returned Ok and Err.
StateOf(f) ==
    IF f.result.kind = "err" THEN "Failed"
    ELSE IF f.result.kind = "ok" THEN "Done"
    ELSE IF f.pc = "start" THEN "Created"
    ELSE IF f.pc = "create" THEN "MetadataResolved"
    ELSE IF f.pc = "match_mode" THEN "SessionOpen"
    ELSE IF f.pc \in {"send_single", "for_chunks", "read", "send_part"} THEN "Transmitting"
    ELSE IF f.pc = "complete" THEN "Finalizing"
    ELSE "NotCalled"

\* The moves of the state machine for a frame whose request has mode.
Moves(mode) ==
    { <<"Created", "MetadataResolved">>, <<"MetadataResolved", "SessionOpen">>,
      <<"SessionOpen", "Transmitting">> }
    \cup (IF mode = "MultiPart"
          THEN { <<"Transmitting", "Finalizing">>, <<"Finalizing", "Done">> }
          ELSE { <<"Transmitting", "Done">> })
    \cup { <<s, "Failed">> : s \in { "Created", "MetadataResolved", "SessionOpen",
                                     "Transmitting", "Finalizing" } }

\* C23: every step of an upload either stays in Transmitting or makes one
\* move of Created -> MetadataResolved -> SessionOpen -> Transmitting ->
\* (Finalizing, MultiPart only) -> Done, or a move from a non-terminal state
\* to Failed; once in Done or Failed the frame never changes, no remote call
\* is issued or returns, and the source is not read.
C23_StateMachine ==
    [][\A u \in Uploads :
          LET s == StateOf(uploads[u])
              t == StateOf(uploads'[u])
          IN /\ s # t => <<s, t>> \in Moves(uploads'[u].request.mode)
             /\ (s = t /\ uploads'[u] # uploads[u]) => s = "Transmitting"
             /\ s = "Finalizing" => uploads[u].request.mode = "MultiPart"
             /\ s \in {"Done", "Failed"} =>
                   /\ uploads'[u] = uploads[u]
                   /\ CallsOf(u)' = CallsOf(u)]_vars

\* A multi-part upload that went through every state up to Finalizing and
\* failed there, with its parts sent.
C23_Witness ==
    \E u \in Uploads :
        /\ StateOf(uploads[u]) = "Failed"
        /\ Len(SendsOf(u)) >= 1
        /\ Len(CompletesOf(u)) = 1
        /\ CompletesOf(u)[1].state = "err"

\* C24: every part a MultiPart upload sends holds at least one byte and at
\* most chunk_size bytes (CHUNK_SIZE = 5 MiB in the buffered path); a read
\* of 0 bytes is never sent as a part but ends the transmission: once
\* complete_file_upload was called, it is the last call of the upload.
C24_PartsNonEmptyAndBounded ==
    \A u \in Uploads :
        MultiPart(u) =>
            /\ \A k \in 1..Len(SendsOf(u)) :
                  /\ BytesLen(SendsOf(u)[k].file_data) >= 1
                  /\ BytesLen(SendsOf(u)[k].file_data) <= ChunkSizeOf(u)
            /\ CompletesOf(u) # << >> =>
                  calls[LastPosition(u)].op = "complete_file_upload"
            /\ ~uploads[u].stream => ChunkSizeOf(u) = 5 * 1024 * 1024

\* A buffer of 5 MiB + 1 byte was uploaded as a part of 5 MiB and a part of
\* one byte.
C24_Witness ==
    \E u \in Uploads :
        /\ ~uploads[u].stream
        /\ Succeeded(u)
        /\ Len(SendsOf(u)) = 2
        /\ BytesLen(SendsOf(u)[1].file_data) = CHUNK_SIZE
        /\ BytesLen(SendsOf(u)[2].file_data) = 1

\* C25: when complete_file_upload fails, the upload has returned the error
\* of that call; the call was made once and is the last call of the upload
\* (no retry, no re-send, no cancel); all parts were sent before it, each
\* exactly once with its number 1..N, all successfully, and together they
\* carry every byte taken from the source.
C25_CompleteFailureLeavesPartsSent ==
    \A u \in Uploads :
        \A i \in PositionsOf(u) :
            (calls[i].op = "complete_file_upload" /\ calls[i].state = "err") =>
                /\ uploads[u].pc = "done"
                /\ uploads[u].result = Err(calls[i].error, calls[i].fault)
                /\ Len(CompletesOf(u)) = 1
                /\ i = LastPosition(u)
                /\ \A k \in 1..Len(SendsOf(u)) :
                      /\ SendsOf(u)[k].state = "ok"
                      /\ SendsOf(u)[k].part_number = Some(k)
                /\ ~uploads[u].stream => DataOf(SendsOf(u)) = uploads[u].chunks
                /\ Concat(DataOf(SendsOf(u))) = Slice(0, BytesRead(u))

\* A buffered upload of three parts whose complete_file_upload was rejected.
C25_Witness ==
    \E u \in Uploads :
        /\ ~uploads[u].stream
        /\ Len(SendsOf(u)) = 3
        /\ Len(CompletesOf(u)) = 1
        /\ CompletesOf(u)[1].fault = "status"
        /\ uploads[u].result.error = "InvalidStatusCode"

\* C26: when the send_file_upload call of a SinglePart upload fails, the
\* upload has returned the error of that call and its calls are exactly the
\* create and that one send: no second send, no complete_file_upload, no
\* other call, nothing in flight; the session the create opened stays open.
C26_SinglePartSendFailure ==
    \A u \in Uploads :
        \A i \in PositionsOf(u) :
            (SinglePart(u) /\ calls[i].op = "send_file_upload" /\ calls[i].state = "err") =>
                /\ uploads[u].pc = "done"
                /\ uploads[u].result = Err(calls[i].error, calls[i].fault)
                /\ Len(CallsOf(u)) = 2
                /\ CallsOf(u)[1].op = "create_file_upload"
                /\ CallsOf(u)[1].state = "ok"
                /\ i = LastPosition(u)
                /\ InFlight(u) = {}
                /\ sessions = 1

\* A streaming single-part upload whose send was rejected by the server.
C26_Witness ==
    \E u \in Uploads :
        /\ SinglePart(u)
        /\ uploads[u].stream
        /\ uploads[u].pc = "done"
        /\ Len(SendsOf(u)) = 1
        /\ SendsOf(u)[1].fault = "status"
        /\ uploads[u].result = Err("FailedToRequest", "status")

\* C27: when two uploads run on the same endpoint with their steps
\* interleaved in any order, every step changes the frame and the calls of
\* one upload only, and in every state each upload has sent its own parts
\* numbered 1, 2, ... in order, carrying the bytes of its own source, under
\* the id of its own session, which differs from the other's; an upload
\* that has not returned can always take its next step, whatever happened to
\* the other, and an upload fails only on the error of a call or a read of
\* its own.
C27_ConcurrentUploadsIndependent ==
    /\ [](\A u \in Uploads :
            LET f == uploads[u] IN
            /\ \A k \in 1..Len(SendsOf(u)) :
                  /\ SendsOf(u)[k].part_number = Some(k)
                  /\ SendsOf(u)[k].id = f.file_upload.id
                  /\ f.file_upload.id # 0
                  /\ ~f.stream => SendsOf(u)[k].file_data = f.chunks[k]
            /\ f.stream => Concat(DataOf(SendsOf(u))) = Slice(0, f.reader.pos)
            /\ \A k \in 1..Len(CompletesOf(u)) : CompletesOf(u)[k].id = f.file_upload.id
            /\ \A v \in Uploads \ {u} :
                  f.file_upload.id # 0 => uploads[v].file_upload.id # f.file_upload.id
            /\ (Started(u) /\ f.pc # "done") => ENABLED UploadStep(u)
            /\ (f.pc = "done" /\ f.result.kind = "err") =>
                  \/ f.result = Err("IoError", "read")
                  \/ /\ calls[LastPosition(u)].state = "err"
                     /\ f.result = Err(calls[LastPosition(u)].error,
                                       calls[LastPosition(u)].fault))
    /\ [][\E u \in Uploads :
             \A v \in Uploads \ {u} :
                 /\ uploads'[v] = uploads[v]
                 /\ CallsOf(v)' = CallsOf(v)]_vars

\* One upload failed on its first part while the other, which had started
\* before that and went on after it, sent its two parts and succeeded.
C27_Witness ==
    \E u \in Uploads : \E v \in Uploads \ {u} :
        /\ uploads[u].pc = "done"
        /\ Len(SendsOf(u)) = 1
        /\ SendsOf(u)[1].state = "err"
        /\ Succeeded(v)
        /\ Len(SendsOf(v)) = 2
        /\ FirstPosition(v) < LastPosition(u)
        /\ LastPosition(u) < LastPosition(v)

\* C28: the create_file_upload call of an upload carries the filename,
\* content type, content length and mode of the request the entry point
\* built, and that request never changes afterwards; the mode it declares is
\* the one that drives the transmission: with SinglePart there is at most
\* one send, without a part number, and no complete_file_upload; only with
\* MultiPart are there numbered parts and a complete_file_upload.
C28_DeclaredModeDrivesTransmission ==
    /\ [](\A u \in Uploads :
            CreatesOf(u) # << >> =>
                LET c == CreatesOf(u)[1]
                    r == uploads[u].request
                IN /\ c.filename = r.filename
                   /\ c.content_type = r.content_type
                   /\ c.content_length = r.content_length
                   /\ c.mode = r.mode
                   /\ c.mode \in {"SinglePart", "MultiPart"}
                   /\ uploads[u].stream =>
                         /\ r.filename = uploads[u].config.filename
                         /\ r.content_type = uploads[u].config.content_type
                   /\ c.mode = "SinglePart" =>
                         /\ Len(SendsOf(u)) <= 1
                         /\ \A k \in 1..Len(SendsOf(u)) : SendsOf(u)[k].part_number = None
                         /\ CompletesOf(u) = << >>
                         /\ uploads[u].pc \notin {"for_chunks", "read", "send_part", "complete"}
                   /\ c.mode = "MultiPart" =>
                         /\ \A k \in 1..Len(SendsOf(u)) : SendsOf(u)[k].part_number = Some(k)
                         /\ Succeeded(u) => Len(CompletesOf(u)) = 1
                         /\ uploads[u].pc # "send_single")
    /\ [][\A u \in Uploads :
             Started(u) => uploads'[u].request = uploads[u].request]_vars

\* upload_file_multi_part declared MultiPart for a buffer below the
\* threshold and sent it in numbered parts.
C28_Witness ==
    \E u \in Uploads :
        /\ uploads[u].entry = "upload_file_multi_part"
        /\ BytesLen(uploads[u].file_data) < MULTIPART_THRESHOLD
        /\ CreatesOf(u)[1].mode = "MultiPart"
        /\ Len(SendsOf(u)) >= 2
        /\ Succeeded(u)

\* C29: an upload started through upload_stream_unknown_size opens its
\* session with mode MultiPart and content_length 0 for every config, also
\* one whose total_size is known and below 20 MiB; it sends numbered parts
\* only, and when it succeeds its last call is the one complete_file_upload.
C29_UnknownSizeForcesMultiPart ==
    \A u \in Uploads :
        (uploads[u].entry = "upload_stream_unknown_size" /\ Started(u)) =>
            /\ CreatesOf(u) # << >>
            /\ CreatesOf(u)[1].mode = "MultiPart"
            /\ CreatesOf(u)[1].content_length = 0
            /\ \A k \in 1..Len(SendsOf(u)) : SendsOf(u)[k].part_number = Some(k)
            /\ Succeeded(u) =>
                  /\ Len(CompletesOf(u)) = 1
                  /\ calls[LastPosition(u)].op = "complete_file_upload"

\* upload_stream_unknown_size with a config of known size 3 uploaded a
\* 3-byte source in numbered parts.
C29_Witness ==
    \E u \in Uploads :
        /\ uploads[u].entry = "upload_stream_unknown_size"
        /\ uploads[u].config.total_size = Some(3)
        /\ uploads[u].reader.len = 3
        /\ Succeeded(u)
        /\ Len(SendsOf(u)) >= 1
        /\ Len(CompletesOf(u)) = 1

\* C30 as stated: every upload that was called eventually returns (Ok or
\* Err), and with a chunk size above 0 the number of send_file_upload calls
\* of an upload never exceeds the number of bytes it read from its source.
C30_TerminatesSendsBoundedByBytes ==
    /\ \A u \in Uploads : Started(u) ~> (uploads[u].pc = "done")
    /\ [](\A u \in Uploads :
            (Started(u) /\ ChunkSizeOf(u) > 0) => Len(SendsOf(u)) <= BytesRead(u))

\* C30, amended: every upload that was called eventually returns (Ok or
\* Err); a MultiPart upload never has more send_file_upload calls than bytes
\* read from its source, and a SinglePart upload has at most one, which it
\* issues also for a source of no bytes.
C30_Termination ==
    /\ \A u \in Uploads : Started(u) ~> (uploads[u].pc = "done")
    /\ [](\A u \in Uploads :
            /\ MultiPart(u) => Len(SendsOf(u)) <= BytesRead(u)
            /\ SinglePart(u) => Len(SendsOf(u)) <= 1)

\* A single-part upload of an empty buffer has returned after one send.
C30_Witness ==
    \E u \in Uploads :
        /\ SinglePart(u)
        /\ ~uploads[u].stream
        /\ BytesRead(u) = 0
        /\ Len(SendsOf(u)) = 1
        /\ Succeeded(u)

\* C31: the part counter never wraps: for every k, the k-th chunk of a
\* MultiPart upload is sent with part number k, also when k exceeds the range
\* of the 32-bit counter; no part number is repeated or reduced modulo 2^32.
\* The j-th send kept in calls carries chunk number parts_before + j.
C31_PartCounterNeverWraps ==
    \A u \in Uploads :
        \A j \in 1..Len(SendsOf(u)) :
            LET send == SendsOf(u)[j]
            IN /\ send.part_number.some
               /\ ValueOf(send.part_number.v) = BigAdd(uploads[u].parts_before, j)

\* No upload is aborted by a panic of the counter's increment.
C31_NoPanic == \A u \in Uploads : uploads[u].pc # "panicked"

\* Below the overflow the numbering is right: parts 2^31 - 1, 2^31 and
\* 2^31 + 1 are sent with their own numbers across the sign bit of the
\* pattern.
C31_RightBelowOverflow ==
    \E u \in Uploads :
        /\ uploads[u].parts_before = Big(HALF \div 2 - 1, HALF - 3)
        /\ Len(SendsOf(u)) = 3
        /\ \A j \in 1..3 :
             ValueOf(SendsOf(u)[j].part_number.v) = BigAdd(uploads[u].parts_before, j)
        /\ uploads[u].pc = "done" /\ uploads[u].result.kind = "ok"

====
